---- MODULE Spec2Model ----
(***************************************************************************)
(* ClaudeProcessManager (src/server/lib/claude.ts): one registry of        *)
(* sessions, one PTY subprocess spawned per sendMessage, whose onData and  *)
(* onExit callbacks parse the output into events.                          *)
(*                                                                         *)
(* Node runs every handler to completion, so each handler is one action.   *)
(* Three history variables record what the last handler did: the events it *)
(* emitted, the status assignments it made, and the call with its result.  *)
(*                                                                         *)
(* Spec runs the handlers in every order.  SpecStream runs one send whose  *)
(* subprocess writes a chosen output in chunks cut anywhere and then       *)
(* exits; it keeps the lines handed to the line loop and the events        *)
(* emitted over the whole run.  SpecPair runs two sessions, one send each, *)
(* with the callbacks of their subprocesses interleaved in every order.    *)
(* SpecTwo runs every handler on two sessions.                             *)
(*                                                                         *)
(* Three other objects of the server are modelled beside it, each with a   *)
(* specification of its own: TunnelManager (src/server/lib/tunnel.ts,      *)
(* SpecTunnel), AuthManager (src/server/lib/auth.ts, SpecAuth) and         *)
(* ImageManager (src/server/lib/image-manager.ts, SpecImage).              *)
(***************************************************************************)
EXTENDS Integers, Sequences, FiniteSets, TLC

\* ---------------------------------------------------------------- bounds
MaxSessions == 1
MaxProcs == 2
MaxBuf == 1

SessionIds == 1..MaxSessions
ProcIds == 1..MaxProcs

\* ------------------------------------------------------------ text model
\* A text is a sequence of atoms.  An atom is one character, or one whole
\* JSON document of the stream-json protocol.
ESC == "ESC"
LF == "\n"
Whitespace == {" ", "\t", "\r", LF}
Digits == {"0", "1"}
AnsiParams == Digits \cup {";"}

JsonError == "{\"type\":\"error\",\"error\":\"boom\"}"
JsonErrorNoPayload == "{\"type\":\"error\"}"
JsonErrorEmptyPayload == "{\"type\":\"error\",\"error\":\"\"}"
JsonResult == "{\"type\":\"result\",\"content\":\"42\"}"
JsonAssistantText == "{\"type\":\"assistant\",\"subtype\":\"text\",\"content\":\"hi\"}"
JsonAssistantOther == "{\"type\":\"assistant\",\"subtype\":\"thinking\"}"
JsonToolUse == "{\"type\":\"tool_use\",\"tool_name\":\"ls\",\"tool_input\":{}}"
JsonToolResult == "{\"type\":\"tool_result\",\"result\":\"ok\"}"
JsonUnknownKind == "{\"type\":\"system\"}"
JsonNull == "null"
JsonArray == "[]"
JsonTrue == "true"
JsonString == "\"hi\""

JsonObjects ==
  {JsonError, JsonErrorNoPayload, JsonErrorEmptyPayload, JsonResult,
   JsonAssistantText,
   JsonAssistantOther, JsonToolUse, JsonToolResult, JsonUnknownKind}

\* JSON values that are neither objects nor null nor numbers.
JsonOthers == {JsonArray, JsonTrue, JsonString}

\* The chunks a subprocess writes and the prompts a caller sends.
Chunks == {<<"x">>, <<"x", LF>>}
Messages == {<<"hi">>}
Paths == {"/repo"}
WorktreeIds == {"wt"}
ExitCodes == {0, 1}

RECURSIVE TrimStart(_)
TrimStart(s) ==
  IF s # <<>> /\ Head(s) \in Whitespace THEN TrimStart(Tail(s)) ELSE s

RECURSIVE TrimEnd(_)
TrimEnd(s) ==
  IF s # <<>> /\ s[Len(s)] \in Whitespace
  THEN TrimEnd(SubSeq(s, 1, Len(s) - 1))
  ELSE s

\* String.prototype.trim
Trim(s) == TrimEnd(TrimStart(s))

\* The index of the first atom at or after i that is no ANSI parameter.
RECURSIVE ParamsEnd(_, _)
ParamsEnd(s, i) ==
  IF i <= Len(s) /\ s[i] \in AnsiParams THEN ParamsEnd(s, i + 1) ELSE i

\* line.replace(/\x1b\[[0-9;]*m/g, "")
RECURSIVE StripAnsi(_)
StripAnsi(s) ==
  IF s = <<>> THEN <<>>
  ELSE IF Head(s) = ESC /\ Len(s) >= 2 /\ s[2] = "["
       THEN LET j == ParamsEnd(s, 3)
            IN IF j <= Len(s) /\ s[j] = "m"
               THEN StripAnsi(SubSeq(s, j + 1, Len(s)))
               ELSE <<Head(s)>> \o StripAnsi(Tail(s))
       ELSE <<Head(s)>> \o StripAnsi(Tail(s))

\* buffer.split("\n"): the pieces between line breaks, at least one.
RECURSIVE Split(_)
Split(s) ==
  IF \A i \in 1..Len(s) : s[i] # LF THEN <<s>>
  ELSE LET k == CHOOSE i \in 1..Len(s) : s[i] = LF /\ \A j \in 1..(i - 1) : s[j] # LF
       IN <<SubSeq(s, 1, k - 1)>> \o Split(SubSeq(s, k + 1, Len(s)))

\* ------------------------------------------------------ event classifier
\* One emitted event.  A field that the event does not carry holds "none"
\* (content: the empty text).
Ev(name, sid, role, type, content, status) ==
  [name |-> name, sid |-> sid, role |-> role, type |-> type,
   content |-> content, status |-> status]

SessionEv(name, sid, status) == Ev(name, sid, "none", "none", <<>>, status)
MessageReceived(sid, role, type, content) ==
  Ev("message:received", sid, role, type, content, "none")
MessageStream(sid, chunk) ==
  Ev("message:stream", sid, "none", "text", chunk, "none")
MessageComplete(sid) == Ev("message:complete", sid, "none", "none", <<>>, "none")

\* The members of each JSON object of the protocol.
JsonFields(doc) ==
  CASE doc = JsonError -> [type |-> "error", error |-> "boom"]
    [] doc = JsonErrorNoPayload -> [type |-> "error"]
    [] doc = JsonErrorEmptyPayload -> [type |-> "error", error |-> ""]
    [] doc = JsonResult -> [type |-> "result", content |-> "42"]
    [] doc = JsonAssistantText ->
         [type |-> "assistant", subtype |-> "text", content |-> "hi"]
    [] doc = JsonAssistantOther -> [type |-> "assistant", subtype |-> "thinking"]
    [] doc = JsonToolUse ->
         [type |-> "tool_use", tool_name |-> "ls", tool_input |-> "{}"]
    [] doc = JsonToolResult -> [type |-> "tool_result", result |-> "ok"]
    [] doc = JsonUnknownKind -> [type |-> "system"]

\* A JSON number over the digits of the model: no leading zero.
IsJsonNumber(t) ==
  /\ t # <<>>
  /\ \A i \in 1..Len(t) : t[i] \in Digits
  /\ (Len(t) = 1 \/ t[1] # "0")

\* JSON.parse(line): a syntax error, or the value.  JSON allows white space
\* around the one value.
JSONParse(line) ==
  LET t == Trim(line)
  IN IF Len(t) = 1 /\ t[1] \in JsonObjects
     THEN [ok |-> TRUE, kind |-> "object", fields |-> JsonFields(t[1])]
     ELSE IF Len(t) = 1 /\ t[1] = JsonNull
     THEN [ok |-> TRUE, kind |-> "null", fields |-> <<>>]
     ELSE IF (Len(t) = 1 /\ t[1] \in JsonOthers) \/ IsJsonNumber(t)
     THEN [ok |-> TRUE, kind |-> "other", fields |-> <<>>]
     ELSE [ok |-> FALSE, kind |-> "none", fields |-> <<>>]

\* ${event.f} in a template literal: the member as a text, "undefined"
\* (dflt) when it is absent
FieldOr(fields, f, dflt) ==
  IF f \in DOMAIN fields THEN <<fields[f]>> ELSE dflt

\* event.f || dflt, as a text: dflt when the member is absent or falsy
\* (the empty string)
OrElse(fields, f, dflt) ==
  IF f \in DOMAIN fields /\ fields[f] # "" THEN <<fields[f]>> ELSE dflt

\* Variant: the catch arm only logs the line.
NonJsonLine_Dropped(sid, line) == <<>>

\* the catch arm: emit message:stream with the line as the chunk
NonJsonLine(sid, line) == <<MessageStream(sid, line)>>

\* Variant: the tool_use message built with the role of a tool result.
ToolUseMessage_WrongRole(sid, e) ==
  MessageReceived(sid, "system", "tool_use",
    <<"Using tool: ">> \o FieldOr(e, "tool_name", <<"undefined">>)
      \o <<LF>> \o FieldOr(e, "tool_input", <<"undefined">>))

\* case "tool_use": the message emitted
ToolUseMessage(sid, e) ==
  MessageReceived(sid, "assistant", "tool_use",
    <<"Using tool: ">> \o FieldOr(e, "tool_name", <<"undefined">>)
      \o <<LF>> \o FieldOr(e, "tool_input", <<"undefined">>))

\* Variant: the final result built with the role of a tool result.
ResultMessage_System(sid, e) ==
  MessageReceived(sid, "system", "text", OrElse(e, "content", <<>>))

\* case "result": the message emitted
ResultMessage(sid, e) ==
  MessageReceived(sid, "assistant", "text", OrElse(e, "content", <<>>))

\* Variant: the error message built without the default text.
ErrorMessage_NoDefault(sid, e) ==
  MessageReceived(sid, "system", "error", OrElse(e, "error", <<>>))

\* case "error": the message emitted
ErrorMessage(sid, e) ==
  MessageReceived(sid, "system", "error", OrElse(e, "error", <<"Unknown error">>))

\* Variant: a kind without a case is reported as an error message.
UnknownKind_Reported(sid, e) ==
  <<MessageReceived(sid, "system", "error", <<"Unknown error">>)>>

\* the switch has no default: a kind without a case emits nothing
UnknownKind(sid, e) == <<>>

\* processStreamEvent(sessionId, line): the events it emits
ProcessStreamEvent(sid, line) ==
  LET p == JSONParse(line)
      e == p.fields
  IN IF ~p.ok \/ p.kind = "null"
     THEN \* JSON.parse throws, or reading null.type throws: the catch arm
          NonJsonLine(sid, line)
     ELSE IF p.kind # "object" THEN <<>>
     ELSE CASE e.type = "assistant" ->
                 IF "subtype" \in DOMAIN e /\ e.subtype = "text"
                 THEN <<MessageStream(sid, OrElse(e, "content", <<>>))>>
                 ELSE <<>>
            [] e.type = "tool_use" -> <<ToolUseMessage(sid, e)>>
            [] e.type = "tool_result" ->
                 <<MessageReceived(sid, "system", "tool_result",
                     OrElse(e, "result", <<>>))>>
            [] e.type = "result" -> <<ResultMessage(sid, e)>>
            [] e.type = "error" -> <<ErrorMessage(sid, e)>>
            [] OTHER -> UnknownKind(sid, e)

\* One complete line of the onData loop: trim, strip, classify if non-empty.
LineEvents(sid, line) ==
  LET cleanLine == StripAnsi(Trim(line))
  IN IF cleanLine # <<>> THEN ProcessStreamEvent(sid, cleanLine) ELSE <<>>

\* Variant: the loop walks the lines from the last to the first.
RECURSIVE LinesEvents_Reversed(_, _, _)
LinesEvents_Reversed(sid, lines, n) ==
  IF n = 0 THEN <<>>
  ELSE LineEvents(sid, lines[n]) \o LinesEvents_Reversed(sid, lines, n - 1)

\* The events of lines[1..n], in order.
RECURSIVE LinesEvents(_, _, _)
LinesEvents(sid, lines, n) ==
  IF n = 0 THEN <<>>
  ELSE LinesEvents(sid, lines, n - 1) \o LineEvents(sid, lines[n])

\* Variant: the exit callback leaves the remainder where it is.
FlushEvents_Skipped(sid, buffer) == <<>>

\* The remainder the exit callback flushes.
FlushEvents(sid, buffer) ==
  IF Trim(buffer) # <<>>
  THEN LET cleanBuffer == StripAnsi(Trim(buffer))
       IN IF cleanBuffer # <<>> THEN ProcessStreamEvent(sid, cleanBuffer) ELSE <<>>
  ELSE <<>>

\* --------------------------------------------------------------- state
VARIABLES
  processes,  \* the keys of the Map `processes`
  info,       \* the ProcessInfo object of every session ever started
  pty,        \* every PTY subprocess ever spawned
  emitted,    \* the events the last handler emitted, in order
  writes,     \* the status assignments the last handler made, in order
  lastOp,     \* the last handler and its result
  owners,     \* per session: the live subprocesses whose unterminated
              \* output is in the buffer
  unconsumed, \* per session: the bytes written and not yet handed to the
              \* line loop, and whether every byte handed so far was the
              \* next one written
  output,     \* SpecStream: the whole output of the subprocess
  pos,        \* SpecStream: how much of it the subprocess has written
  handed,     \* SpecStream: the raw lines handed to the line loop, in order
  published,  \* SpecStream: the events emitted, in order, each with its handler
  cut,        \* SpecStream: whether a chunk has ended inside a line
  outputs,    \* SpecPair: per session, the whole output of its subprocess
  delivered,  \* SpecPair: per session, how much of it has been delivered
  process,    \* TunnelManager: the cloudflared child held (0: null)
  publicUrl,  \* TunnelManager: the public URL, or "null"
  children,   \* TunnelManager: every cloudflared child spawned, each with
              \* the variables its callbacks closed over
  tunnelEmitted, \* TunnelManager: the events the last handler emitted
  tunnelOp,   \* TunnelManager: the last handler and how it ended
  enabled,    \* AuthManager: whether authentication is enabled
  token,      \* AuthManager: the current token
  issued,     \* AuthManager: how many tokens generateToken has made
  authOp,     \* AuthManager: the last call, its arguments and its result
  idGiven,    \* ImageManager: the session id given to saveImage
  imageOp     \* ImageManager: the last call and its result

handlerVars == <<processes, info, pty, emitted, writes, lastOp>>
streamVars == <<output, pos, handed, published, cut, outputs, delivered>>
tunnelVars == <<process, publicUrl, children, tunnelEmitted, tunnelOp>>
\* The objects of the server that ClaudeProcessManager never touches.
authVars == <<enabled, token, issued, authOp>>
imageVars == <<idGiven, imageOp>>
otherObjects == <<tunnelVars, authVars, imageVars>>
vars == <<processes, info, pty, emitted, writes, lastOp, unconsumed, owners,
          output, pos, handed, published, cut, outputs, delivered,
          otherObjects>>

\* What tunnelOp holds: the handler, the child concerned (0: none) and how
\* the call ended.
TunnelOp(op, pid, result) == [op |-> op, pid |-> pid, result |-> result]

\* new TunnelManager(localPort)
InitTunnelManager ==
  /\ process = 0
  /\ publicUrl = "null"
  /\ children = <<>>
  /\ tunnelEmitted = <<>>
  /\ tunnelOp = TunnelOp("init", 0, "ok")

\* An absent value (undefined).
Undefined == "undefined"

\* The successive values of randomBytes(16).toString("hex"), taken to be
\* different from one another.
RandomHex == <<"0a", "1b", "2c", "3d", "4e">>

\* generateToken(), for the n-th time
GenerateToken(n) == RandomHex[n]

\* What authOp holds: the call, its two arguments (a request's two places
\* for a token) and the result.
AuthOp(op, a, b, result) == [op |-> op, a |-> a, b |-> b, result |-> result]

\* export const authManager = new AuthManager(false)
InitAuthManager ==
  /\ enabled = FALSE
  /\ token = GenerateToken(1)
  /\ issued = 1
  /\ authOp = AuthOp("init", Undefined, Undefined, "ok")

\* What imageOp holds: the call, how it ended, and the directory of the
\* file written (the empty path: none).
ImageOp(op, result, dir) == [op |-> op, result |-> result, dir |-> dir]

\* new ImageManager(), no saveImage yet
InitImageManager ==
  /\ idGiven = <<>>
  /\ imageOp = ImageOp("init", "ok", <<>>)

\* The other objects as constructed.
InitOtherObjects == InitTunnelManager /\ InitAuthManager /\ InitImageManager

Statuses == {"idle", "active", "stopped", "error"}

\* One status assignment: session, value before, value after.
Write(sid, from, to) == [sid |-> sid, from |-> from, to |-> to]

\* What lastOp holds: the handler, its session, the subprocess concerned
\* (0: none), the exit code, how the call ended, and what kill() did.
Op(op, sid, pid, code, result, kill) ==
  [op |-> op, sid |-> sid, pid |-> pid, code |-> code, result |-> result,
   kill |-> kill]

\* Whether subprocess pid has been spawned and has not exited.
Live(pid) == pid \in 1..Len(pty) /\ pty[pid].state # "exited"

\* The live subprocesses spawned for session sid.
LiveProcs(sid) == {p \in 1..Len(pty) : pty[p].session = sid /\ pty[p].state # "exited"}

Init ==
  /\ processes = {}
  /\ info = <<>>
  /\ pty = <<>>
  /\ emitted = <<>>
  /\ writes = <<>>
  /\ lastOp = Op("init", 0, 0, 0, "ok", "none")
  /\ unconsumed = <<>>
  /\ owners = <<>>
  /\ output = <<>>
  /\ pos = 0
  /\ handed = <<>>
  /\ published = <<>>
  /\ cut = FALSE
  /\ outputs = <<>>
  /\ delivered = <<>>
  /\ InitOtherObjects

\* new Date(): model time advances with every session made.
Now == Len(info)

\* Variant: the id of the newest session is handed out again.
FreshId_Reused == IF info = <<>> THEN 1 ELSE Len(info)

\* nanoid(): an id that no session has had; here the next unused number.
FreshId == Len(info) + 1

\* startSession(worktreeId, worktreePath)
StartSession(path) ==
  /\ LET sessionId == FreshId
         session == [id |-> sessionId,
                     worktreeId |-> CHOOSE w \in WorktreeIds : TRUE,
                     worktreePath |-> path, status |-> "idle",
                     createdAt |-> Now]
     IN /\ info' = Append(info, [process |-> 0, session |-> session, buffer |-> <<>>])
        /\ processes' = processes \cup {sessionId}
        /\ emitted' = <<SessionEv("session:created", sessionId, "idle")>>
        /\ lastOp' = Op("start", sessionId, 0, 0, "ok", "none")
  /\ writes' = <<>>
  /\ UNCHANGED pty

\* this.processes.get(sessionId) finds an entry
SessionExists(sid) == sid \in processes

\* Variant: the unknown session is reported as an event, not thrown.
SendRejected_Reports(sid) ==
  /\ lastOp' = Op("send", sid, 0, 0, "ok", "none")
  /\ emitted' = <<MessageReceived(sid, "system", "error", <<"Session not found">>)>>
  /\ writes' = <<>>
  /\ UNCHANGED <<processes, info, pty>>

\* sendMessage on an unknown session: throw new Error("Session not found")
SendRejected(sid) ==
  /\ lastOp' = Op("send", sid, 0, 0, "Session not found", "none")
  /\ emitted' = <<>>
  /\ writes' = <<>>
  /\ UNCHANGED <<processes, info, pty>>

\* Variant: the status is set on a copy of the session made at that moment.
SetStatus_Copy(session, status) ==
  [id |-> session.id, worktreeId |-> session.worktreeId,
   worktreePath |-> session.worktreePath, status |-> status, createdAt |-> Now]

\* info.session.status = status: the one field of the session assigned
SetStatus(session, status) == [session EXCEPT !.status = status]

\* Variant: the event carries a copy of the session taken when the
\* handler began.
UpdatedEvent_Stale(sid, status) ==
  SessionEv("session:updated", sid, info[sid].session.status)

\* this.emit("session:updated", info.session) after status was assigned
UpdatedEvent(sid, status) == SessionEv("session:updated", sid, status)

\* info.session.status = "active"
SendStatus == "active"

\* Variant: the catch arm leaves the status as sendMessage set it.
SpawnFailedStatus_Unset == "active"

\* the catch arm: info.session.status = "error"
SpawnFailedStatus == "error"

\* Variant: the user message built without its content.
UserMessage_Empty(sid, message) == MessageReceived(sid, "user", "text", <<>>)

\* the user message sendMessage emits before it spawns
UserMessage(sid, message) == MessageReceived(sid, "user", "text", message)

\* sendMessage on a known session; spawnOk: ptySpawn returns, else it throws.
SendAccepted(sid, message, spawnOk) ==
  LET old == info[sid].session.status
      ptyProcess == Len(pty) + 1
      first == <<UpdatedEvent(sid, SendStatus),
                 UserMessage(sid, message)>>
  IN IF spawnOk
     THEN /\ Len(pty) < MaxProcs
          /\ pty' = Append(pty, [session |-> sid, state |-> "running"])
          /\ info' = [info EXCEPT ![sid].session = SetStatus(@, SendStatus),
                                  ![sid].process = ptyProcess,
                                  ![sid].buffer = <<>>]
          /\ emitted' = first
          /\ writes' = <<Write(sid, old, SendStatus)>>
          /\ lastOp' = Op("send", sid, ptyProcess, 0, "spawned", "none")
          /\ UNCHANGED processes
     ELSE /\ info' = [info EXCEPT ![sid].session = SetStatus(@, SpawnFailedStatus)]
          /\ emitted' = first \o
               <<MessageReceived(sid, "system", "error",
                   <<"Failed to start Claude Code: ", "Error">>),
                 UpdatedEvent(sid, SpawnFailedStatus)>>
          /\ writes' = <<Write(sid, old, SendStatus),
                         Write(sid, SendStatus, SpawnFailedStatus)>>
          /\ lastOp' = Op("send", sid, 0, 0, "spawn failed", "none")
          /\ UNCHANGED <<processes, pty>>

SendMessage(sid, message, spawnOk) ==
  IF SessionExists(sid)
  THEN SendAccepted(sid, message, spawnOk)
  ELSE SendRejected(sid)

\* Variant: the callbacks use the session started last, not the one of
\* the sendMessage call that registered them.
SessionOf_Latest(pid) == Len(info)

\* Variant: the callbacks use the session started first.
SessionOf_First(pid) == 1

\* sessionId and info as the callbacks of subprocess pid closed over them
SessionOf(pid) == pty[pid].session

\* Variant: nothing is kept of the incomplete line.
Remainder_Dropped(lines) == <<>>

\* lines.pop() || "": the incomplete line kept in the buffer
Remainder(lines) == lines[Len(lines)]

\* ptyProcess.onData of subprocess pid; info and sessionId are those the
\* sendMessage call that spawned it closed over.
OnData(pid, data) ==
  /\ Live(pid)
  /\ LET sid == SessionOf(pid)
         lines == Split(info[sid].buffer \o data)
         rest == Remainder(lines)
     IN /\ info' = [info EXCEPT ![sid].buffer = rest]
        /\ emitted' = LinesEvents(sid, lines, Len(lines) - 1)
        /\ lastOp' = Op("data", sid, pid, 0, "ok", "none")
  /\ writes' = <<>>
  /\ UNCHANGED <<processes, pty>>

\* Variant: the exit code tested for truth instead of compared with 0.
ExitStatus_Truthy(exitCode) == IF exitCode # 0 THEN "idle" ELSE "error"

\* exitCode === 0 ? "idle" : "error"
ExitStatus(exitCode) == IF exitCode = 0 THEN "idle" ELSE "error"

\* Variant: the exit callback removes the session of its subprocess.
RegistryAfterExit_Deletes(pid) == processes \ {SessionOf(pid)}

\* the exit callback does not touch the Map `processes`
RegistryAfterExit(pid) == processes

\* ptyProcess.onExit of subprocess pid
OnExit(pid, exitCode) ==
  /\ Live(pid)
  /\ LET sid == SessionOf(pid)
         old == info[sid].session.status
     IN /\ info' = [info EXCEPT ![sid].session = SetStatus(@, ExitStatus(exitCode))]
        /\ emitted' = FlushEvents(sid, info[sid].buffer) \o
             <<UpdatedEvent(sid, ExitStatus(exitCode)),
               MessageComplete(sid)>>
        /\ writes' = <<Write(sid, old, ExitStatus(exitCode))>>
        /\ lastOp' = Op("exit", sid, pid, exitCode, "ok", "none")
  /\ pty' = [pty EXCEPT ![pid].state = "exited"]
  /\ processes' = RegistryAfterExit(pid)

\* info.process.kill(): a running subprocess is signalled and exits later.
Kill(p, pid) ==
  IF pid # 0 /\ p[pid].state = "running"
  THEN [p EXCEPT ![pid].state = "killed"]
  ELSE p

\* info.session.status = "stopped"
StopStatus == "stopped"

\* Variant: stopping an unknown session still announces the stop.
StopUnknown_Reports(sid) ==
  /\ lastOp' = Op("stop", sid, 0, 0, "noop", "none")
  /\ emitted' = <<SessionEv("session:stopped", sid, "none")>>
  /\ writes' = <<>>
  /\ UNCHANGED <<processes, info, pty>>

\* stopSession on an unknown session: if (!info) return
StopUnknown(sid) ==
  /\ lastOp' = Op("stop", sid, 0, 0, "noop", "none")
  /\ emitted' = <<>>
  /\ writes' = <<>>
  /\ UNCHANGED <<processes, info, pty>>

\* Variant: kill() is called outside any try, so its error ends the call.
StopKnown_Uncaught(sid, killThrows) ==
  LET handle == info[sid].process
  IN /\ killThrows => handle # 0 /\ pty[handle].state # "running"
     /\ IF killThrows
        THEN /\ lastOp' = Op("stop", sid, handle, 0, "kill failed", "threw")
             /\ emitted' = <<>>
             /\ writes' = <<>>
             /\ UNCHANGED <<processes, info, pty>>
        ELSE /\ pty' = Kill(pty, handle)
             /\ info' = [info EXCEPT ![sid].session = SetStatus(@, StopStatus)]
             /\ emitted' = <<SessionEv("session:stopped", sid, "none")>>
             /\ writes' = <<Write(sid, info[sid].session.status, StopStatus)>>
             /\ processes' = processes \ {sid}
             /\ lastOp' = Op("stop", sid, handle, 0, "stopped",
                             IF handle = 0 THEN "none" ELSE "called")

\* stopSession on a session of the registry: kill() inside try/catch, then
\* the status, the event and the removal.
StopKnown(sid, killThrows) ==
  LET handle == info[sid].process
  IN /\ killThrows => handle # 0 /\ pty[handle].state # "running"
     /\ pty' = Kill(pty, handle)
     /\ info' = [info EXCEPT ![sid].session = SetStatus(@, StopStatus)]
     /\ emitted' = <<SessionEv("session:stopped", sid, "none")>>
     /\ writes' = <<Write(sid, info[sid].session.status, StopStatus)>>
     /\ processes' = processes \ {sid}
     /\ lastOp' = Op("stop", sid, handle, 0, "stopped",
                     IF handle = 0 THEN "none"
                     ELSE IF killThrows THEN "threw" ELSE "called")

\* stopSession(sessionId); killThrows: kill() raises, which only a handle
\* whose subprocess is no longer running does.
StopSession(sid, killThrows) ==
  IF ~SessionExists(sid)
  THEN ~killThrows /\ StopUnknown(sid)
  ELSE StopKnown(sid, killThrows)

\* Variant: only the session started last is stopped with its subprocess.
KillAll_Latest(p, n) ==
  IF n # 0 /\ n \in processes THEN Kill(p, info[n].process) ELSE p

\* The subprocesses after stopSession ran for each of the sessions 1..n that
\* are in the registry.
RECURSIVE KillAll(_, _)
KillAll(p, n) ==
  IF n = 0 THEN p
  ELSE IF n \in processes
       THEN Kill(KillAll(p, n - 1), info[n].process)
       ELSE KillAll(p, n - 1)

\* The sessions of the registry among 1..n, in the order of the Map's keys
\* (the order of insertion).
RECURSIVE Keys(_)
Keys(n) ==
  IF n = 0 THEN <<>>
  ELSE IF n \in processes THEN Append(Keys(n - 1), n) ELSE Keys(n - 1)

\* cleanup(): stopSession for every key of the registry
Cleanup ==
  LET sessionIds == Keys(Len(info))
  IN /\ pty' = KillAll(pty, Len(info))
     /\ info' = [sid \in DOMAIN info |->
                   IF sid \in processes
                   THEN [info[sid] EXCEPT !.session = SetStatus(@, StopStatus)]
                   ELSE info[sid]]
     /\ emitted' = [i \in DOMAIN sessionIds |->
                      SessionEv("session:stopped", sessionIds[i], "none")]
     /\ writes' = [i \in DOMAIN sessionIds |->
                     Write(sessionIds[i], info[sessionIds[i]].session.status,
                           StopStatus)]
     /\ processes' = {}
     /\ lastOp' = Op("cleanup", 0, 0, 0, "ok", "none")

IsPrefix(a, b) == Len(a) <= Len(b) /\ SubSeq(b, 1, Len(a)) = a
IsSuffix(a, b) == Len(a) <= Len(b) /\ SubSeq(b, Len(b) - Len(a) + 1, Len(b)) = a

\* The bytes of lines[1..n], each line with the line break that ended it.
RECURSIVE JoinLines(_, _)
JoinLines(lines, n) ==
  IF n = 0 THEN <<>> ELSE JoinLines(lines, n - 1) \o lines[n] \o <<LF>>

\* The record of a session's unconsumed bytes after its subprocess wrote
\* `written` and the handler handed the bytes `taken` to the line loop and
\* left `buffer`.  It stays ok while the bytes handed are the next ones
\* written and the bytes not yet handed are the end of the buffer.
Consume(u, written, taken, buffer) ==
  LET all == u.bytes \o written
      left == SubSeq(all, Len(taken) + 1, Len(all))
  IN IF u.ok /\ IsPrefix(taken, all) /\ IsSuffix(left, buffer)
     THEN [bytes |-> left, ok |-> TRUE]
     ELSE [bytes |-> <<>>, ok |-> FALSE]

TrackStart ==
  /\ unconsumed' = Append(unconsumed, [bytes |-> <<>>, ok |-> TRUE])
  /\ owners' = Append(owners, {})

\* The owners of session sid's buffer after subprocess pid wrote data:
\* after a line break in data what is left is pid's alone.
OwnersAfterData(sid, pid, data) ==
  IF info'[sid].buffer = <<>> THEN {}
  ELSE IF \E i \in 1..Len(data) : data[i] = LF THEN {pid}
  ELSE owners[sid] \cup {pid}

\* onData hands every piece of the split but the last.
TrackData(pid, data) ==
  LET sid == pty[pid].session
      lines == Split(info[sid].buffer \o data)
  IN /\ unconsumed' =
          [unconsumed EXCEPT ![sid] =
             Consume(@, data, JoinLines(lines, Len(lines) - 1), info'[sid].buffer)]
     /\ owners' = [owners EXCEPT ![sid] = OwnersAfterData(sid, pid, data)]

\* onExit hands the whole buffer (white space alone is dropped on purpose).
TrackExit(pid) ==
  LET sid == pty[pid].session
  IN /\ unconsumed' =
          [unconsumed EXCEPT ![sid] =
             Consume(@, <<>>, info[sid].buffer, info'[sid].buffer)]
     /\ owners' = [s \in DOMAIN owners |-> owners[s] \ {pid}]

\* sendMessage writes nothing and hands nothing.
TrackSend(sid) ==
  /\ unconsumed' =
       [s \in DOMAIN unconsumed |->
          IF s = sid THEN Consume(unconsumed[s], <<>>, <<>>, info'[s].buffer)
          ELSE unconsumed[s]]
  /\ owners' =
       [s \in DOMAIN owners |->
          IF s = sid /\ info'[s].buffer = <<>> THEN {} ELSE owners[s]]

Next ==
  \/ \E path \in Paths :
       /\ Len(info) < MaxSessions
       /\ StartSession(path)
       /\ TrackStart
       /\ UNCHANGED <<streamVars, otherObjects>>
  \/ \E sid \in SessionIds, message \in Messages, spawnOk \in BOOLEAN :
       SendMessage(sid, message, spawnOk) /\ TrackSend(sid) /\ UNCHANGED <<streamVars, otherObjects>>
  \/ \E pid \in ProcIds, data \in Chunks :
       /\ OnData(pid, data)
       /\ Len(info'[pty[pid].session].buffer) <= MaxBuf
       /\ TrackData(pid, data)
       /\ UNCHANGED <<streamVars, otherObjects>>
  \/ \E pid \in ProcIds, exitCode \in ExitCodes :
       OnExit(pid, exitCode) /\ TrackExit(pid) /\ UNCHANGED <<streamVars, otherObjects>>
  \/ \E sid \in SessionIds, killThrows \in BOOLEAN :
       StopSession(sid, killThrows) /\ UNCHANGED <<unconsumed, owners, streamVars, otherObjects>>
  \/ Cleanup /\ UNCHANGED <<unconsumed, owners, streamVars, otherObjects>>

Spec == Init /\ [][Next]_vars

\* ------------------------------------------------- one subprocess's output
\* SpecStream follows one session through one send: the subprocess writes
\* `output`, the PTY delivers it in chunks of any sizes, then it exits.
MaxTextTokens == 4
MaxJsonLines == 2

\* A colour sequence, and an erase-to-end-of-line sequence.
Sgr == <<ESC, "[", "0", "m">>
EraseLine == <<ESC, "[", "K">>

\* Terminal output: any arrangement of these pieces.
TextTokens == {Sgr, EraseLine, <<" ">>, <<"x">>, <<LF>>}

\* Protocol output: whole lines, each a JSON value or nearly one.
JsonLines ==
  {<<d>> : d \in JsonObjects \cup JsonOthers \cup {JsonNull}}
    \cup {<<"0">>, <<"1", "0">>, <<"0", "1">>, <<" ", JsonResult, " ">>,
          <<JsonResult, JsonResult>>}

\* The concatenations of at most n members of T.
RECURSIVE Concats(_, _)
Concats(T, n) ==
  IF n = 0 THEN {<<>>}
  ELSE LET shorter == Concats(T, n - 1)
       IN shorter \cup {a \o t : a \in shorter, t \in T}

\* At most n lines of L, each ended by a line break.
RECURSIVE LinesOf(_, _)
LinesOf(L, n) ==
  IF n = 0 THEN {<<>>}
  ELSE LET shorter == LinesOf(L, n - 1)
       IN shorter \cup {a \o l \o <<LF>> : a \in shorter, l \in L}

\* The outputs: terminal text, or protocol lines whose last line may lack
\* its line break.
Outputs ==
  Concats(TextTokens, MaxTextTokens)
    \cup LinesOf(JsonLines, MaxJsonLines)
    \cup {a \o l : a \in LinesOf(JsonLines, MaxJsonLines - 1), l \in JsonLines}

\* The events evs, each marked with the handler that emitted it.
Tag(evs, by) == [i \in DOMAIN evs |-> [ev |-> evs[i], by |-> by]]

InitStream ==
  /\ processes = {}
  /\ info = <<>>
  /\ pty = <<>>
  /\ emitted = <<>>
  /\ writes = <<>>
  /\ lastOp = Op("init", 0, 0, 0, "ok", "none")
  /\ unconsumed = <<>>
  /\ owners = <<>>
  /\ output \in Outputs
  /\ pos = 0
  /\ handed = <<>>
  /\ published = <<>>
  /\ cut = FALSE
  /\ outputs = <<>>
  /\ delivered = <<>>
  /\ InitOtherObjects

StreamStart ==
  /\ Len(info) = 0
  /\ \E path \in Paths : StartSession(path)
  /\ TrackStart
  /\ published' = published \o Tag(emitted', "start")
  /\ UNCHANGED <<output, pos, handed, cut, outputs, delivered, otherObjects>>

StreamSend ==
  /\ SessionExists(1)
  /\ Len(pty) = 0
  /\ \E message \in Messages : SendMessage(1, message, TRUE)
  /\ TrackSend(1)
  /\ published' = published \o Tag(emitted', "send")
  /\ UNCHANGED <<output, pos, handed, cut, outputs, delivered, otherObjects>>

\* The PTY delivers the next k atoms of the output as one chunk.
StreamData ==
  \E k \in 1..(Len(output) - pos) :
    LET data == SubSeq(output, pos + 1, pos + k)
        lines == Split(info[1].buffer \o data)
    IN /\ OnData(1, data)
       /\ TrackData(1, data)
       /\ pos' = pos + k
       /\ handed' = handed \o SubSeq(lines, 1, Len(lines) - 1)
       /\ published' = published \o Tag(emitted', "data")
       /\ cut' = (cut \/ (pos' < Len(output) /\ info'[1].buffer # <<>>))
       /\ UNCHANGED <<output, outputs, delivered, otherObjects>>

\* The subprocess exits once it has written everything.
StreamExit ==
  /\ pos = Len(output)
  /\ \E exitCode \in ExitCodes : OnExit(1, exitCode)
  /\ TrackExit(1)
  /\ handed' = Append(handed, info[1].buffer)
  /\ published' = published \o Tag(emitted', "exit")
  /\ UNCHANGED <<output, pos, cut, outputs, delivered, otherObjects>>

NextStream == StreamStart \/ StreamSend \/ StreamData \/ StreamExit

SpecStream == InitStream /\ [][NextStream]_vars

\* ------------------------------------------------- two sessions at once
\* SpecPair follows two sessions, each through one send: the callbacks of
\* the two subprocesses interleave in every order.
PairIds == {1, 2}

\* What either subprocess may write.
PairOutputs == {<<"x">>, <<JsonResult, LF, "x">>, <<"x", LF, JsonError, LF>>}

InitPair ==
  /\ processes = {}
  /\ info = <<>>
  /\ pty = <<>>
  /\ emitted = <<>>
  /\ writes = <<>>
  /\ lastOp = Op("init", 0, 0, 0, "ok", "none")
  /\ unconsumed = <<>>
  /\ owners = <<>>
  /\ output = <<>>
  /\ pos = 0
  /\ handed = <<>>
  /\ published = <<>>
  /\ cut = FALSE
  /\ outputs \in [PairIds -> PairOutputs]
  /\ delivered = [sid \in PairIds |-> 0]
  /\ InitOtherObjects

pairFrame ==
  <<unconsumed, owners, output, pos, handed, cut, outputs, otherObjects>>

PairStart ==
  /\ Len(info) < Cardinality(PairIds)
  /\ \E path \in Paths : StartSession(path)
  /\ published' = published \o Tag(emitted', "start")
  /\ UNCHANGED <<pairFrame, delivered>>

PairSend ==
  \E sid \in PairIds :
    /\ SessionExists(sid)
    /\ \A p \in 1..Len(pty) : pty[p].session # sid
    /\ \E message \in Messages : SendMessage(sid, message, TRUE)
    /\ published' = published \o Tag(emitted', "send")
    /\ UNCHANGED <<pairFrame, delivered>>

\* The PTY of subprocess pid delivers the next k atoms of its output.
PairData ==
  \E pid \in 1..Len(pty) :
    LET sid == pty[pid].session
    IN \E k \in 1..(Len(outputs[sid]) - delivered[sid]) :
         /\ OnData(pid, SubSeq(outputs[sid], delivered[sid] + 1, delivered[sid] + k))
         /\ delivered' = [delivered EXCEPT ![sid] = @ + k]
         /\ published' = published \o Tag(emitted', "data")
         /\ UNCHANGED pairFrame

PairExit ==
  \E pid \in 1..Len(pty) :
    /\ delivered[pty[pid].session] = Len(outputs[pty[pid].session])
    /\ \E exitCode \in ExitCodes : OnExit(pid, exitCode)
    /\ published' = published \o Tag(emitted', "exit")
    /\ UNCHANGED <<pairFrame, delivered>>

NextPair == PairStart \/ PairSend \/ PairData \/ PairExit

SpecPair == InitPair /\ [][NextPair]_vars

\* ------------------------------------------- two sessions, every handler
\* SpecTwo runs the handlers of Spec on two sessions.
ghostVars == <<unconsumed, owners, streamVars>>

TwoStart ==
  /\ Len(info) < Cardinality(PairIds)
  /\ \E path \in Paths : StartSession(path)
  /\ UNCHANGED <<ghostVars, otherObjects>>

TwoSend ==
  /\ \E sid \in PairIds, message \in Messages, spawnOk \in BOOLEAN :
       SendMessage(sid, message, spawnOk)
  /\ UNCHANGED <<ghostVars, otherObjects>>

TwoData ==
  /\ \E pid \in ProcIds, data \in Chunks :
       /\ OnData(pid, data)
       /\ Len(info'[pty[pid].session].buffer) <= MaxBuf
  /\ UNCHANGED <<ghostVars, otherObjects>>

TwoExit ==
  /\ \E pid \in ProcIds, exitCode \in ExitCodes : OnExit(pid, exitCode)
  /\ UNCHANGED <<ghostVars, otherObjects>>

TwoStop ==
  /\ \E sid \in PairIds, killThrows \in BOOLEAN : StopSession(sid, killThrows)
  /\ UNCHANGED <<ghostVars, otherObjects>>

TwoCleanup == Cleanup /\ UNCHANGED <<ghostVars, otherObjects>>

NextTwo ==
  TwoStart \/ TwoSend \/ TwoData \/ TwoExit \/ TwoStop \/ TwoCleanup

SpecTwo == Init /\ [][NextTwo]_vars

\* ------------------------------------------------------- TunnelManager
\* src/server/lib/tunnel.ts: one cloudflared child per accepted start().
\* A child is live from its spawn until it has exited; kill() only signals
\* it, and its stderr, close and timer callbacks keep arriving until then.
MaxChildren == 2
MaxOutput == 1

ChildIds == 1..MaxChildren

\* The URL cloudflared prints, as one atom of its output.
Url == "https://a.trycloudflare.com"

\* What one data event of stderr or stdout may carry.
TunnelChunks == {<<"x">>, <<Url>>}

\* outputBuffer.match(/https:\/\/[a-z0-9-]+\.trycloudflare\.com/i): the
\* first match, or nothing.
UrlMatch(outputBuffer) ==
  IF \E i \in DOMAIN outputBuffer : outputBuffer[i] = Url
  THEN <<Url>>
  ELSE <<>>

\* resolve() and reject() settle a promise once; later calls do nothing.
Settle(promise, outcome) == IF promise = "pending" THEN outcome ELSE promise

\* A child that has been spawned and has not exited.
LiveChild(pid) ==
  pid \in DOMAIN children /\ children[pid].state \in {"running", "killed"}

LiveChildren == {pid \in DOMAIN children : LiveChild(pid)}

\* isRunning()
IsRunning == process # 0

\* getUrl()
GetUrl == publicUrl

\* if (this.process)
AlreadyRunning == process # 0

\* spawn() returned a child; spawned: the program was started, otherwise
\* the child reports the failure with an error event.  timeout: whether the
\* timer of setTimeout is pending, "none" once it fired or was cleared.
NewChild(spawned) ==
  [state |-> IF spawned THEN "running" ELSE "failed",
   outputBuffer |-> <<>>, urlFound |-> FALSE, timeout |-> "pending",
   promise |-> "pending", errored |-> FALSE, urls |-> 0]

\* start(); found: findCloudflared() returned a path; spawn: "ok", "error"
\* (the failure is reported by the child's error event) or "throws".
TunnelStart(found, spawn) ==
  /\ tunnelEmitted' = <<>>
  /\ IF AlreadyRunning
     THEN /\ tunnelOp' = TunnelOp("start", 0, "Tunnel already running")
          /\ UNCHANGED <<process, publicUrl, children>>
     ELSE IF ~found
     THEN /\ tunnelOp' = TunnelOp("start", 0, "cloudflared not found")
          /\ UNCHANGED <<process, publicUrl, children>>
     ELSE IF spawn = "throws"
     THEN /\ tunnelOp' = TunnelOp("start", 0, "spawn threw")
          /\ UNCHANGED <<process, publicUrl, children>>
     ELSE /\ children' = Append(children, NewChild(spawn = "ok"))
          /\ process' = Len(children) + 1
          /\ tunnelOp' = TunnelOp("start", Len(children) + 1, "spawned")
          /\ UNCHANGED publicUrl

\* this.process.kill("SIGTERM"): a running child is signalled and exits
\* later.
KillChild(c, pid) ==
  IF c[pid].state = "running" THEN [c EXCEPT ![pid].state = "killed"] ELSE c

\* The body of stop(), on the children c.
StopBody(c) ==
  IF process # 0
  THEN /\ children' = KillChild(c, process)
       /\ process' = 0
       /\ publicUrl' = "null"
  ELSE /\ children' = c
       /\ UNCHANGED <<process, publicUrl>>

\* stop()
TunnelStop ==
  /\ StopBody(children)
  /\ tunnelEmitted' = <<>>
  /\ tunnelOp' = TunnelOp("stop", process, IF process # 0 THEN "killed" ELSE "noop")

\* && !urlFound
UrlIsNew(child) == ~child.urlFound

\* The stderr data callback of child pid.
StderrData(pid, data) ==
  /\ LiveChild(pid)
  /\ LET outputBuffer == children[pid].outputBuffer \o data
         urlMatch == UrlMatch(outputBuffer)
         child == [children[pid] EXCEPT !.outputBuffer = outputBuffer]
     IN IF urlMatch # <<>> /\ UrlIsNew(child)
        THEN /\ children' =
                  [children EXCEPT ![pid] =
                     [child EXCEPT !.urlFound = TRUE, !.timeout = "none",
                                   !.promise = Settle(@, "resolved"),
                                   !.urls = @ + 1]]
             /\ publicUrl' = urlMatch[1]
             /\ tunnelEmitted' = <<[name |-> "url", value |-> urlMatch[1]]>>
             /\ tunnelOp' = TunnelOp("stderr", pid, "url")
        ELSE /\ children' = [children EXCEPT ![pid] = child]
             /\ tunnelEmitted' = <<>>
             /\ tunnelOp' = TunnelOp("stderr", pid, "ok")
             /\ UNCHANGED publicUrl
  /\ UNCHANGED process

\* The stdout data callback of child pid.
StdoutData(pid, data) ==
  /\ LiveChild(pid)
  /\ children' = [children EXCEPT ![pid].outputBuffer = @ \o data]
  /\ tunnelEmitted' = <<>>
  /\ tunnelOp' = TunnelOp("stdout", pid, "ok")
  /\ UNCHANGED <<process, publicUrl>>

\* The error callback of child pid, whose spawn failed.
TunnelError(pid) ==
  /\ pid \in DOMAIN children
  /\ children[pid].state = "failed"
  /\ ~children[pid].errored
  /\ children' = [children EXCEPT ![pid].timeout = "none",
                                  ![pid].promise = Settle(@, "rejected"),
                                  ![pid].errored = TRUE]
  /\ tunnelEmitted' = <<[name |-> "error", value |-> "spawn"]>>
  /\ tunnelOp' = TunnelOp("error", pid, "rejected")
  /\ UNCHANGED <<process, publicUrl>>

\* The close callback of child pid: a live child exited, or the child whose
\* spawn failed closed after its error event.  No callback of the child
\* runs after it, so its outputBuffer is dropped.
TunnelClose(pid, code) ==
  /\ pid \in DOMAIN children
  /\ LiveChild(pid) \/ (children[pid].state = "failed" /\ children[pid].errored)
  /\ children' =
       [children EXCEPT ![pid].state = "closed", ![pid].timeout = "none",
                        ![pid].outputBuffer = <<>>,
                        ![pid].promise =
                          IF children[pid].urlFound
                          THEN @ ELSE Settle(@, "rejected")]
  /\ process' = 0
  /\ publicUrl' = "null"
  /\ tunnelEmitted' = <<[name |-> "close", value |-> code]>>
  /\ tunnelOp' = TunnelOp("close", pid, "ok")

\* The 30 s timer set by the start that spawned child pid.
TunnelTimeout(pid) ==
  /\ LiveChild(pid)
  /\ children[pid].timeout = "pending"
  /\ IF ~children[pid].urlFound
     THEN StopBody([children EXCEPT ![pid].timeout = "none",
                                    ![pid].promise = Settle(@, "rejected")])
     ELSE /\ children' = [children EXCEPT ![pid].timeout = "none"]
          /\ UNCHANGED <<process, publicUrl>>
  /\ tunnelEmitted' = <<>>
  /\ tunnelOp' = TunnelOp("timeout", pid,
                          IF children[pid].urlFound THEN "ok" ELSE "rejected")

claudeVars == <<handlerVars, unconsumed, owners, streamVars>>
tunnelFrame == <<claudeVars, authVars, imageVars>>

NextTunnel ==
  \/ \E found \in BOOLEAN, spawn \in {"ok", "error", "throws"} :
       /\ AlreadyRunning => found /\ spawn = "ok"
       /\ ~found => spawn = "ok"
       /\ ~AlreadyRunning /\ found /\ spawn # "throws" =>
            Len(children) < MaxChildren
       /\ TunnelStart(found, spawn)
       /\ UNCHANGED tunnelFrame
  \/ TunnelStop /\ UNCHANGED tunnelFrame
  \/ \E pid \in ChildIds, data \in TunnelChunks :
       /\ StderrData(pid, data)
       /\ Len(children'[pid].outputBuffer) <= MaxOutput
       /\ UNCHANGED tunnelFrame
  \/ \E pid \in ChildIds, data \in TunnelChunks :
       /\ StdoutData(pid, data)
       /\ Len(children'[pid].outputBuffer) <= MaxOutput
       /\ UNCHANGED tunnelFrame
  \/ \E pid \in ChildIds : TunnelError(pid) /\ UNCHANGED tunnelFrame
  \/ \E pid \in ChildIds, code \in ExitCodes :
       TunnelClose(pid, code) /\ UNCHANGED tunnelFrame
  \/ \E pid \in ChildIds : TunnelTimeout(pid) /\ UNCHANGED tunnelFrame

SpecTunnel == Init /\ [][NextTunnel]_vars

\* --------------------------------------------------------- AuthManager
\* src/server/lib/auth.ts: a token, a switch, and two middlewares.
MaxTokens == 2

\* What a client may present where a token is expected: nothing, the empty
\* string, or one of the tokens.
Credentials == {Undefined, ""} \cup {GenerateToken(n) : n \in 1..MaxTokens}

\* a || b
OrValue(a, b) == IF a \in {Undefined, ""} THEN b ELSE a

\* Variant: every token is valid.
ValidateToken_Always(t) == TRUE

\* validateToken(token)
ValidateToken(t) == IF ~enabled THEN TRUE ELSE t = token

\* enable()
Enable ==
  /\ enabled' = TRUE
  /\ authOp' = AuthOp("enable", Undefined, Undefined, "ok")
  /\ UNCHANGED <<token, issued>>

\* disable()
Disable ==
  /\ enabled' = FALSE
  /\ authOp' = AuthOp("disable", Undefined, Undefined, "ok")
  /\ UNCHANGED <<token, issued>>

\* regenerateToken(); authOp keeps the token it replaced.
RegenerateToken ==
  /\ token' = GenerateToken(issued + 1)
  /\ issued' = issued + 1
  /\ authOp' = AuthOp("regenerateToken", token, Undefined, token')
  /\ UNCHANGED enabled

\* A call of validateToken(t) from outside.
ValidateTokenCall(t) ==
  /\ authOp' = AuthOp("validateToken", t, Undefined,
                      IF ValidateToken(t) THEN "true" ELSE "false")
  /\ UNCHANGED <<enabled, token, issued>>

\* The handler httpMiddleware() returns, on a request with req.query.token
\* = query and req.headers["x-auth-token"] = header.
HttpMiddleware(query, header) ==
  /\ authOp' =
       AuthOp("http", query, header,
              IF ~enabled THEN "next"
              ELSE IF ValidateToken(OrValue(query, header)) THEN "next"
              ELSE "401")
  /\ UNCHANGED <<enabled, token, issued>>

\* The handler socketMiddleware() returns, on a handshake with auth.token =
\* auth and query.token = query.
SocketMiddleware(auth, query) ==
  /\ authOp' =
       AuthOp("socket", auth, query,
              IF ~enabled THEN "next"
              ELSE IF ValidateToken(OrValue(auth, query)) THEN "next"
              ELSE "Authentication failed")
  /\ UNCHANGED <<enabled, token, issued>>

authFrame == <<claudeVars, tunnelVars, imageVars>>

NextAuth ==
  \/ Enable /\ UNCHANGED authFrame
  \/ Disable /\ UNCHANGED authFrame
  \/ issued < MaxTokens /\ RegenerateToken /\ UNCHANGED authFrame
  \/ \E t \in Credentials : ValidateTokenCall(t) /\ UNCHANGED authFrame
  \/ \E query \in Credentials, header \in Credentials :
       HttpMiddleware(query, header) /\ UNCHANGED authFrame
  \/ \E auth \in Credentials, query \in Credentials :
       SocketMiddleware(auth, query) /\ UNCHANGED authFrame

SpecAuth == Init /\ [][NextAuth]_vars

\* -------------------------------------------------------- ImageManager
\* src/server/lib/image-manager.ts: saveImage and the session id it turns
\* into a directory name.  SpecImage draws the session id and calls
\* saveImage on it.
MaxIdLen == 3

\* The characters of a session id: the two path separators, the dot, one
\* of the characters forbidden on Windows, the space and a letter.
IdChars == {"/", "\\", ".", ":", " ", "a"}

SessionIdInputs == UNION {[1..n -> IdChars] : n \in 0..MaxIdLen}

\* [/\\]
PathSeparators == {"/", "\\"}

\* [<>:"|?*\x00-\x1f], the control characters being those of the alphabet
ForbiddenChars == {"<", ">", ":", "\"", "|", "?", "*", "\t", "\r", LF}

\* s.replace(/[...]/g, ""): every character of the class removed
RemoveChars(s, class) ==
  LET Kept(c) == c \notin class
  IN SelectSeq(s, Kept)

\* s.replace(/\.\./g, ""): every pair of dots removed, pairs found from the
\* left and not overlapping, in one pass
RECURSIVE RemoveDotDot(_)
RemoveDotDot(s) ==
  IF Len(s) < 2 THEN s
  ELSE IF s[1] = "." /\ s[2] = "."
       THEN RemoveDotDot(SubSeq(s, 3, Len(s)))
       ELSE <<s[1]>> \o RemoveDotDot(Tail(s))

\* substring(0, 256)
MaxSanitizedLength == 256

\* sanitizeSessionId(sessionId): the sanitized id, or nothing (null)
SanitizeSessionId(id) ==
  IF id = <<>> THEN <<>>
  ELSE LET sanitized ==
             Trim(RemoveChars(RemoveDotDot(RemoveChars(id, PathSeparators)),
                              ForbiddenChars))
       IN IF sanitized = <<>> THEN <<>>
          ELSE <<SubSeq(sanitized, 1,
                        IF Len(sanitized) < MaxSanitizedLength
                        THEN Len(sanitized) ELSE MaxSanitizedLength)>>

\* path.resolve(BASE_DIR), as the names from the root down
BaseDir == << <<"tmp">>, <<"ccm-images">> >>

\* path.join(dir, name) for a name without a separator: "." is dir itself,
\* ".." its parent, any other name an entry of dir.
PathJoin(dir, name) ==
  IF name = <<".">> THEN dir
  ELSE IF name = <<".", ".">> THEN SubSeq(dir, 1, Len(dir) - 1)
  ELSE Append(dir, name)

\* ALLOWED_MIME_TYPES
AllowedMimeTypes == {"image/png", "image/jpeg", "image/gif", "image/webp"}

\* The MIME types a caller may give.
MimeTypes == {"image/png", "text/html"}

\* saveImage(idGiven, base64Data, mimeType); small: the decoded data is
\* within MAX_FILE_SIZE; writeOk: fs.writeFile succeeds.
SaveImage(mimeType, small, writeOk) ==
  /\ LET sanitizedSessionId == SanitizeSessionId(idGiven)
     IN IF sanitizedSessionId = <<>>
        THEN imageOp' = ImageOp("saveImage", "INVALID_SESSION_ID", <<>>)
        ELSE IF mimeType \notin AllowedMimeTypes
        THEN imageOp' = ImageOp("saveImage", "INVALID_MIME_TYPE", <<>>)
        ELSE IF ~small
        THEN imageOp' = ImageOp("saveImage", "FILE_TOO_LARGE", <<>>)
        ELSE LET sessionDir == PathJoin(BaseDir, sanitizedSessionId[1])
             IN imageOp' = ImageOp("saveImage",
                                   IF writeOk THEN "saved" ELSE "SAVE_FAILED",
                                   sessionDir)
  /\ UNCHANGED idGiven

InitImage ==
  /\ processes = {}
  /\ info = <<>>
  /\ pty = <<>>
  /\ emitted = <<>>
  /\ writes = <<>>
  /\ lastOp = Op("init", 0, 0, 0, "ok", "none")
  /\ unconsumed = <<>>
  /\ owners = <<>>
  /\ output = <<>>
  /\ pos = 0
  /\ handed = <<>>
  /\ published = <<>>
  /\ cut = FALSE
  /\ outputs = <<>>
  /\ delivered = <<>>
  /\ InitTunnelManager
  /\ InitAuthManager
  /\ idGiven \in SessionIdInputs
  /\ imageOp = ImageOp("init", "ok", <<>>)

NextImage ==
  \E mimeType \in MimeTypes, small \in BOOLEAN, writeOk \in BOOLEAN :
    /\ SaveImage(mimeType, small, writeOk)
    /\ UNCHANGED <<claudeVars, tunnelVars, authVars>>

SpecImage == InitImage /\ [][NextImage]_vars

\* getSession(sessionId): the session, or nothing (undefined)
GetSession(sid) == IF sid \in processes THEN <<info[sid].session>> ELSE <<>>

\* Variant: every session ever started is returned.
GetAllSessions_Everything == {info[sid].session : sid \in DOMAIN info}

\* getAllSessions(), as the set of the sessions it returns
GetAllSessions == {info[sid].session : sid \in processes}

\* ----------------------------------------------------------------- claims
Started == 1..Len(info)

\* The positions of the last handler's events for sid.
EventsOf(sid) == {i \in 1..Len(emitted) : emitted[i].sid = sid}

IsErrorMessage(e) == e.name = "message:received" /\ e.type = "error"
IsSystemErrorMessage(e) == IsErrorMessage(e) /\ e.role = "system"
IsComplete(e) == e.name = "message:complete"
IsUpdated(e) == e.name = "session:updated"

\* C1: every session has at most one live subprocess (spawned, not yet
\* exited) at any time.
C1_AtMostOneLiveProcess ==
  \A sid \in Started : Cardinality(LiveProcs(sid)) <= 1

\* C2: a send on a session whose status is active and whose subprocess is
\* live fails with AlreadyRunning and changes nothing: no subprocess is
\* spawned, no event is emitted, the session's ProcessInfo is unchanged.
C2_SendWhileActiveRejected ==
  [][\A sid \in SessionIds :
       (/\ lastOp'.op = "send" /\ lastOp'.sid = sid
        /\ SessionExists(sid)
        /\ info[sid].session.status = "active"
        /\ LiveProcs(sid) # {})
       => (/\ lastOp'.result = "AlreadyRunning"
           /\ emitted' = <<>>
           /\ UNCHANGED <<processes, info, pty>>)]_vars

\* C3: a session's status is active only if the subprocess attached to it
\* was spawned for it and has not signalled its exit.
C3_ActiveOnlyWhileLive ==
  \A sid \in Started :
    info[sid].session.status = "active" =>
      /\ info[sid].process \in LiveProcs(sid)

C3_Witness ==
  \E sid \in Started :
    info[sid].session.status = "active" /\ info[sid].process \in LiveProcs(sid)

\* C4: once a session's status is stopped, no later step changes the status
\* of that session record or emits session:updated for it.
C4_StoppedIsTerminal ==
  [][\A sid \in Started :
       info[sid].session.status = "stopped" =>
         /\ info'[sid].session.status = "stopped"
         /\ \A i \in 1..Len(emitted') :
              ~(IsUpdated(emitted'[i]) /\ emitted'[i].sid = sid)]_vars

\* C5: every change of a session's status is idle->active, active->idle,
\* active->error or (any)->stopped, and a new session starts idle.
LegalTransitions ==
  {<<"idle", "active">>, <<"active", "idle">>, <<"active", "error">>}
    \cup {<<st, "stopped">> : st \in Statuses}

C5_OnlyLegalTransitions ==
  /\ \A i \in 1..Len(writes) :
       writes[i].from # writes[i].to =>
         <<writes[i].from, writes[i].to>> \in LegalTransitions
  /\ lastOp.op = "start" => info[lastOp.sid].session.status = "idle"

\* C6: the exit callback of a subprocess that exits with a non-zero code
\* emits at least one message:received of type error for the session.
C6_AbnormalExitPublishesError ==
  (lastOp.op = "exit" /\ lastOp.code # 0) =>
    {i \in EventsOf(lastOp.sid) : IsErrorMessage(emitted[i])} # {}

\* C7: for an exit of a subprocess of a session in the registry, the status
\* becomes idle if the exit code is 0 and error otherwise, and the callback
\* emits exactly one message:complete for the session, after the
\* session:updated that carries the new status.
C7_ExitStatusAndComplete ==
  (lastOp.op = "exit" /\ lastOp.sid \in processes) =>
    LET sid == lastOp.sid
        status == info[sid].session.status
        completes == {i \in EventsOf(sid) : IsComplete(emitted[i])}
    IN /\ status = (IF lastOp.code = 0 THEN "idle" ELSE "error")
       /\ Cardinality(completes) = 1
       /\ \A c \in completes :
            \E u \in 1..(c - 1) :
              emitted[u] = SessionEv("session:updated", sid, status)

C7_Witness ==
  /\ lastOp.op = "exit" /\ lastOp.sid \in processes /\ lastOp.code # 0
  /\ info[lastOp.sid].session.status = "error"

\* C8: a send whose spawn fails does not throw; it emits exactly one
\* message:received of role system and type error, sets the status to error,
\* emits session:updated, and leaves the session without a live subprocess.
C8_SpawnFailureAbsorbed ==
  (lastOp.op = "send" /\ lastOp.result = "spawn failed") =>
    LET sid == lastOp.sid
    IN /\ Cardinality({i \in EventsOf(sid) : IsSystemErrorMessage(emitted[i])}) = 1
       /\ Cardinality({i \in EventsOf(sid) : IsErrorMessage(emitted[i])}) = 1
       /\ info[sid].session.status = "error"
       /\ emitted[Len(emitted)] = SessionEv("session:updated", sid, "error")
       /\ LiveProcs(sid) = {}

\* C9: a send to a session id that is not in the registry fails with
\* "Session not found" and changes nothing: no session is created, no
\* subprocess is spawned, no event is emitted.
C9_SendUnknownSessionRejected ==
  [][\A sid \in SessionIds :
       (lastOp'.op = "send" /\ lastOp'.sid = sid /\ ~SessionExists(sid))
       => (/\ lastOp'.result = "Session not found"
           /\ emitted' = <<>>
           /\ UNCHANGED <<processes, info, pty>>)]_vars

C9_Witness ==
  /\ lastOp.op = "send" /\ lastOp.result = "Session not found"
  /\ lastOp.sid \notin processes

\* C10: stop of a session with a live subprocess kills that subprocess,
\* sets the status to stopped, emits exactly one session:stopped, and
\* removes the session, so that getSession finds nothing and
\* getAllSessions no longer holds it.
C10_StopKillsAndRemoves ==
  [][\A sid \in SessionIds :
       (/\ lastOp'.op = "stop" /\ lastOp'.sid = sid
        /\ SessionExists(sid)
        /\ LiveProcs(sid) # {})
       => (/\ \A p \in LiveProcs(sid) : pty'[p].state = "killed"
           /\ info'[sid].session.status = "stopped"
           /\ emitted' = <<SessionEv("session:stopped", sid, "none")>>
           /\ GetSession(sid)' = <<>>
           /\ \A session \in GetAllSessions' : session.id # sid)]_vars

\* C11: once a session has been stopped, every subprocess ever spawned for
\* it has been terminated: none is left running unsignalled, so that each
\* exits and its callbacks end.
C11_StopTerminatesEverySubprocess ==
  \A sid \in Started \ processes :
    \A p \in 1..Len(pty) : pty[p].session = sid => pty[p].state # "running"

\* C12: the parse buffer is append-then-drain: the bytes the line loop was
\* handed are the bytes written, each once and in the order written, and the
\* bytes written and not yet handed are still at the end of the buffer; no
\* handler (a later send, an exit) drops, repeats or reorders them.
C12_BufferAppendThenDrain ==
  \A sid \in Started : unconsumed[sid].ok

\* ---------------------------------------------- claims about one output
IsOutputEvent(e) ==
  e.by \in {"data", "exit"} /\ e.ev.name \in {"message:received", "message:stream"}

\* The message events the subprocess's output has produced, in order.
OutputEvents ==
  LET sel == SelectSeq(published, IsOutputEvent)
  IN [i \in DOMAIN sel |-> sel[i].ev]

\* What each line alone produces, line after line.
RECURSIVE EventsInLineOrder(_, _)
EventsInLineOrder(lines, n) ==
  IF n = 0 THEN <<>>
  ELSE EventsInLineOrder(lines, n - 1) \o LineEvents(1, lines[n])

\* C13: within one session the message events are published in the order
\* in which the output lines that produced them were parsed; no event is
\* published ahead of an event from an earlier line.
C13_EventsInLineOrder ==
  OutputEvents = EventsInLineOrder(handed, Len(handed))

\* One chunk held two lines that produce different events.
C13_Witness ==
  /\ lastOp.op = "data"
  /\ Len(emitted) >= 2
  /\ emitted[1] # emitted[2]
  /\ OutputEvents = emitted

\* C14: for an accepted send, the user-role message.received carrying the
\* prompt is published before any event derived from the output or the exit
\* of the subprocess that send spawned.
C14_UserMessageFirst ==
  \A i \in DOMAIN published :
    published[i].by \in {"data", "exit"} =>
      \E j \in 1..(i - 1), message \in Messages :
        published[j] = [ev |-> MessageReceived(1, "user", "text", message),
                        by |-> "send"]

\* The subprocess has produced message events and has exited.
C14_Witness ==
  /\ lastOp.op = "exit"
  /\ OutputEvents # <<>>
  /\ \E i \in DOMAIN published : published[i].by = "send"

NonEmpty(t) == t # <<>>

\* The cleaned lines that reach the classifier, of the raw lines given.
Classified(lines) ==
  SelectSeq([i \in DOMAIN lines |-> StripAnsi(Trim(lines[i]))], NonEmpty)

\* The events of the whole output arriving as a single chunk before exit.
SingleChunkEvents ==
  LET lines == Split(output)
  IN LinesEvents(1, lines, Len(lines) - 1) \o FlushEvents(1, lines[Len(lines)])

\* C15: chunk-boundary invariance: however the output is split into
\* chunks, once the subprocess has exited the lines handed to the classifier
\* (the flushed remainder included), and the events they produced, are those
\* of the whole output arriving as one chunk.
C15_ChunkBoundaryInvariance ==
  lastOp.op = "exit" =>
    /\ Classified(handed) = Classified(Split(output))
    /\ OutputEvents = SingleChunkEvents

\* A chunk ended inside a line, and at least two lines were classified.
C15_Witness ==
  /\ lastOp.op = "exit"
  /\ cut
  /\ Len(Classified(handed)) >= 2

\* The final letters of the control sequences of the model.
FinalLetters == {"m", "K", "x"}

\* Whether the text holds a control sequence ESC [ params letter.
HasCsi(t) ==
  \E i \in 1..Len(t) :
    /\ t[i] = ESC
    /\ i + 1 <= Len(t)
    /\ t[i + 1] = "["
    /\ LET j == ParamsEnd(t, i + 2)
       IN j <= Len(t) /\ t[j] \in FinalLetters

\* C16: every control sequence ESC [ params letter, whatever its final
\* letter, is removed before classification: no published chunk or message
\* content holds one.
C16_NoCsiInContent ==
  \A i \in DOMAIN OutputEvents : ~HasCsi(OutputEvents[i].content)

\* The text without its control sequences, whatever their final letter.
RECURSIVE RemoveCsi(_)
RemoveCsi(t) ==
  IF t = <<>> THEN <<>>
  ELSE IF Head(t) = ESC /\ Len(t) >= 2 /\ t[2] = "["
       THEN LET j == ParamsEnd(t, 3)
            IN IF j <= Len(t) /\ t[j] \in FinalLetters
               THEN RemoveCsi(SubSeq(t, j + 1, Len(t)))
               ELSE <<Head(t)>> \o RemoveCsi(Tail(t))
       ELSE <<Head(t)>> \o RemoveCsi(Tail(t))

\* A line of control sequences and white space only.
OnlyAnsiAndSpace(line) == Trim(RemoveCsi(line)) = <<>>

\* C17: a line of control sequences and white space only, in any
\* arrangement, yields no event, as a complete line or as the remainder
\* flushed at exit.
C17_AnsiOnlyLineYieldsNothing ==
  (\A i \in DOMAIN handed : OnlyAnsiAndSpace(handed[i])) => OutputEvents = <<>>

\* A text with a letter outside any JSON value: no JSON text.
HasLetter(t) == \E i \in 1..Len(t) : t[i] = "x"

\* C18: a cleaned, non-empty line of plain text yields exactly one
\* message.stream event, its chunk that line and its type text, and no other
\* event.
C18_PlainTextLineStreamed ==
  LET cleaned == Classified(handed)
  IN (\A i \in DOMAIN cleaned : HasLetter(cleaned[i])) =>
       OutputEvents =
         [i \in DOMAIN cleaned |->
            Ev("message:stream", 1, "none", "text", cleaned[i], "none")]

\* A complete line "x x" was classified.
C18_Witness ==
  /\ lastOp.op = "data"
  /\ Classified(handed) = << <<"x", " ", "x">> >>
  /\ Len(OutputEvents) = 1

RecognisedKinds == {"assistant", "tool_use", "tool_result", "result", "error"}

\* Whether the cleaned line is one JSON object (white space around it allowed).
IsEventObject(c) == Len(Trim(c)) = 1 /\ Trim(c)[1] \in JsonObjects

\* An event object for which the table of kinds has a row.
IsRecognised(c) ==
  /\ IsEventObject(c)
  /\ LET e == JsonFields(Trim(c)[1])
     IN /\ e.type \in RecognisedKinds
        /\ e.type = "assistant" => ("subtype" \in DOMAIN e /\ e.subtype = "text")

\* C19: every non-empty cleaned line that is no event object (a bare JSON
\* number, string, boolean, array or null included) is published as a raw
\* message.stream chunk; a line produces no event only if it is an event
\* object of an unrecognised kind.
C19_NonConformingLinePublished ==
  LET cleaned == Classified(handed)
  IN Len(cleaned) = 1 =>
       /\ ~IsEventObject(cleaned[1]) =>
            OutputEvents = <<MessageStream(1, cleaned[1])>>
       /\ OutputEvents = <<>> =>
            (IsEventObject(cleaned[1]) /\ ~IsRecognised(cleaned[1]))

\* The event name, role and type the table gives each recognised kind.
ExpectedEvent(kind) ==
  CASE kind = "assistant" -> [name |-> "message:stream", role |-> "none", type |-> "text"]
    [] kind = "tool_use" -> [name |-> "message:received", role |-> "assistant", type |-> "tool_use"]
    [] kind = "tool_result" -> [name |-> "message:received", role |-> "system", type |-> "tool_result"]
    [] kind = "result" -> [name |-> "message:received", role |-> "assistant", type |-> "text"]
    [] kind = "error" -> [name |-> "message:received", role |-> "system", type |-> "error"]

\* C20: a decoded event of a recognised kind publishes exactly one event,
\* with the name, role and type of its kind and the id of the session whose
\* subprocess wrote the line.
C20_OneEventPerRecognisedKind ==
  LET cleaned == Classified(handed)
  IN (Len(cleaned) = 1 /\ IsRecognised(cleaned[1])) =>
       /\ Len(OutputEvents) = 1
       /\ LET ev == OutputEvents[1]
              want == ExpectedEvent(JsonFields(Trim(cleaned[1])[1]).type)
          IN /\ ev.name = want.name
             /\ ev.role = want.role
             /\ ev.type = want.type
             /\ ev.sid = pty[1].session

\* A tool_use line was classified.
C20_Witness ==
  /\ lastOp.op = "data"
  /\ Classified(handed) = << <<JsonToolUse>> >>
  /\ Len(OutputEvents) = 1
  /\ OutputEvents[1].type = "tool_use"

\* A raw line whose cleaned text is an event object of a kind without a case.
IsKnownKindLine(line) ==
  LET c == StripAnsi(Trim(line))
  IN ~(IsEventObject(c) /\ JsonFields(Trim(c)[1]).type \notin RecognisedKinds)

\* The part of the output delivered so far.
Delivered == SubSeq(output, 1, pos)

\* C21: an event object of an unrecognised kind is discarded silently: it
\* publishes no event and no error, changes neither the status nor the parse
\* buffer, and the lines after it are processed as if it had not been there.
C21_UnknownKindDiscarded ==
  LET known == SelectSeq(handed, IsKnownKindLine)
  IN /\ OutputEvents = EventsInLineOrder(known, Len(known))
     /\ lastOp.op = "data" =>
          /\ lastOp.result = "ok"
          /\ writes = <<>>
          /\ info[1].session.status = SendStatus
          /\ info[1].buffer = Split(Delivered)[Len(Split(Delivered))]

\* A line of an unknown kind was discarded and the result line after it
\* was published.
C21_Witness ==
  /\ lastOp.op = "data"
  /\ handed = << <<JsonUnknownKind>>, <<JsonResult>> >>
  /\ Len(OutputEvents) = 1
  /\ OutputEvents[1].role = "assistant"

\* C22: when the subprocess writes exactly one result line with content c,
\* with or without its line break, and exits with code 0, the engine
\* publishes after the user message exactly one message.received (assistant,
\* text, c), then exactly one message.complete, and the status ends idle.
C22_ResultThenComplete ==
  (/\ lastOp.op = "exit"
   /\ lastOp.code = 0
   /\ output \in {<<JsonResult>>, <<JsonResult, LF>>}) =>
    /\ [i \in DOMAIN published |-> published[i].ev.name] =
         <<"session:created", "session:updated", "message:received",
           "message:received", "session:updated", "message:complete">>
    /\ published[3].ev = MessageReceived(1, "user", "text", <<"hi">>)
    /\ published[4].ev =
         Ev("message:received", 1, "assistant", "text", <<"42">>, "none")
    /\ published[6].ev = MessageComplete(1)
    /\ info[1].session.status = "idle"

\* The result line arrived without a line break and was flushed at exit.
C22_Witness ==
  /\ lastOp.op = "exit"
  /\ lastOp.code = 0
  /\ output = <<JsonResult>>
  /\ info[1].session.status = "idle"
  /\ Len(published) = 6

\* ---------------------------------------------- claims about two sessions
\* The events published for session sid, in order.
IsEventOf1(e) == e.ev.sid = 1
IsEventOf2(e) == e.ev.sid = 2
PublishedFor(sid) ==
  LET sel == IF sid = 1 THEN SelectSeq(published, IsEventOf1)
             ELSE SelectSeq(published, IsEventOf2)
  IN [i \in DOMAIN sel |-> sel[i].ev]

\* The subprocesses spawned for session sid.
ProcsOf(sid) == {p \in 1..Len(pty) : pty[p].session = sid}

\* What each of lines[1..n] alone produces for session sid, line after line.
RECURSIVE EventsOfLines(_, _, _)
EventsOfLines(sid, lines, n) ==
  IF n = 0 THEN <<>>
  ELSE EventsOfLines(sid, lines, n - 1) \o LineEvents(sid, lines[n])

\* The events of session sid run alone as far as it has come: started,
\* then sent, then the complete lines of what was delivered, then at exit the
\* flushed remainder, the status and the completion marker.
AloneEvents(sid) ==
  LET lines == Split(SubSeq(outputs[sid], 1, delivered[sid]))
      exited == \E p \in ProcsOf(sid) : pty[p].state = "exited"
  IN <<SessionEv("session:created", sid, "idle")>>
     \o (IF ProcsOf(sid) # {}
         THEN <<SessionEv("session:updated", sid, "active"),
                MessageReceived(sid, "user", "text", <<"hi">>)>>
              \o EventsOfLines(sid, lines, Len(lines) - 1)
         ELSE <<>>)
     \o (IF exited
         THEN LineEvents(sid, lines[Len(lines)])
                \o <<SessionEv("session:updated", sid, info[sid].session.status),
                     MessageComplete(sid)>>
         ELSE <<>>)

\* C23: session isolation: with two sessions running at once, under every
\* interleaving of their data and exit callbacks, the events published for
\* each session are those the session produces alone with the same output.
C23_SessionIsolation ==
  \A sid \in Started : PublishedFor(sid) = AloneEvents(sid)

\* Both subprocesses have exited and their events were interleaved.
C23_Witness ==
  /\ \A p \in PairIds : p \in 1..Len(pty) /\ pty[p].state = "exited"
  /\ outputs[1] # outputs[2]
  /\ \E i \in 1..(Len(published) - 2) :
       /\ published[i].by = "data"
       /\ published[i + 1].by = "data"
       /\ published[i].ev.sid # published[i + 1].ev.sid

\* C24: startSession always creates a new session: its id differs from the
\* id of every session created before (also for a directory passed before),
\* its status is idle, it has no subprocess and an empty buffer; it is added
\* to the registry, exactly one session:created is published for it, and
\* the sessions that exist are left as they were.
C24_StartCreatesFreshSession ==
  [][lastOp'.op = "start" =>
       LET sid == lastOp'.sid
       IN /\ sid \notin DOMAIN info
          /\ sid \in DOMAIN info'
          /\ \A t \in DOMAIN info : info[t].session.id # sid
          /\ info'[sid].session.id = sid
          /\ info'[sid].session.status = "idle"
          /\ info'[sid].process = 0
          /\ info'[sid].buffer = <<>>
          /\ processes' = processes \cup {sid}
          /\ emitted' = <<SessionEv("session:created", sid, "idle")>>
          /\ \A t \in DOMAIN info : info'[t] = info[t]
          /\ pty' = pty]_vars

\* A second session was started for the same directory while the first
\* was running.
C24_Witness ==
  /\ lastOp.op = "start"
  /\ lastOp.sid = 2
  /\ info[2].session.worktreePath = info[1].session.worktreePath
  /\ info[1].session.status = "active"
  /\ info[1].buffer # <<>>

\* C25: stopSession on an id that is not in the registry is a silent no-op:
\* it raises nothing, publishes nothing and changes no session, so a second
\* stop of a session adds nothing to the first.
C25_StopUnknownIsNoOp ==
  [][(lastOp'.op = "stop" /\ lastOp'.sid \notin processes) =>
       /\ lastOp'.result = "noop"
       /\ emitted' = <<>>
       /\ writes' = <<>>
       /\ UNCHANGED <<processes, info, pty>>]_vars

\* A session that was stopped has been stopped once more.
C25_Witness ==
  /\ lastOp.op = "stop"
  /\ lastOp.result = "noop"
  /\ lastOp.sid \in Started
  /\ info[lastOp.sid].session.status = "stopped"
  /\ emitted = <<>>

\* C26: a session leaves the registry only by stopSession for it or by
\* cleanup: through sends, outputs, exits with any code and spawn failures a
\* session of the registry stays there and getSession and getAllSessions
\* return it.
C26_RemovedOnlyByStop ==
  [][\A sid \in processes :
       \/ lastOp'.op = "stop" /\ lastOp'.sid = sid
       \/ lastOp'.op = "cleanup"
       \/ /\ sid \in processes'
          /\ GetSession(sid)' = <<info'[sid].session>>
          /\ info'[sid].session \in GetAllSessions']_vars

\* A session whose subprocess exited with an error is still returned.
C26_Witness ==
  /\ lastOp.op = "exit"
  /\ lastOp.code = 1
  /\ lastOp.sid \in processes
  /\ GetSession(lastOp.sid) = <<info[lastOp.sid].session>>
  /\ info[lastOp.sid].session.status = "error"
  /\ GetAllSessions = {info[lastOp.sid].session}

\* C27: the id, the working directory and the creation time of a session
\* never change after startSession: send, stop, spawn failure, output and
\* exit change nothing of a session but its status.
C27_OnlyStatusChanges ==
  [][\A sid \in DOMAIN info :
       info'[sid].session =
         [info[sid].session EXCEPT !.status = info'[sid].session.status]]_vars

\* A session that was sent to and then stopped still has the identity
\* startSession gave it.
C27_Witness ==
  /\ lastOp.op = "stop"
  /\ lastOp.result = "stopped"
  /\ lastOp.pid # 0
  /\ info[lastOp.sid].session =
       [id |-> lastOp.sid, worktreeId |-> "wt", worktreePath |-> "/repo",
        status |-> "stopped", createdAt |-> 0]

\* C28: stopSession on a session whose subprocess has exited already, or
\* whose kill() raises, completes without raising and still sets the status
\* to stopped, publishes session:stopped and removes the session.
C28_StopAfterExitIsSafe ==
  (/\ lastOp.op = "stop"
   /\ lastOp.pid # 0
   /\ (pty[lastOp.pid].state = "exited" \/ lastOp.kill = "threw")) =>
    /\ lastOp.result = "stopped"
    /\ info[lastOp.sid].session.status = "stopped"
    /\ emitted = <<SessionEv("session:stopped", lastOp.sid, "none")>>
    /\ lastOp.sid \notin processes
    /\ GetSession(lastOp.sid) = <<>>

\* The subprocess had exited, kill() on its handle raised, and the stop
\* went through.
C28_Witness ==
  /\ lastOp.op = "stop"
  /\ lastOp.kill = "threw"
  /\ pty[lastOp.pid].state = "exited"
  /\ lastOp.result = "stopped"
  /\ lastOp.sid \notin processes

\* C29: while a subprocess is live, the end of its output that no line
\* break has terminated yet is not classified: a data callback whose chunk
\* (of Chunks: a line break can only end it) leaves a fragment in the buffer
\* publishes nothing, and an exit classifies the buffer only if nothing in
\* it was written by a subprocess that is still live after that exit.
C29_FragmentNotClassifiedWhileLive ==
  /\ (lastOp.op = "data" /\ info[lastOp.sid].buffer # <<>>) => emitted = <<>>
  /\ (lastOp.op = "exit" /\ Trim(info[lastOp.sid].buffer) # <<>>) =>
       \A q \in owners[lastOp.sid] : pty[q].state = "exited"

\* C30: at the exit of the subprocess a non-empty remainder of the buffer is
\* cleaned and classified once, as a last line, and what it produces is
\* published before the session:updated and message:complete of that exit;
\* an empty or white-space remainder produces nothing.
C30_ExitFlushesRemainder ==
  lastOp.op = "exit" =>
    LET remainder == Split(output)[Len(Split(output))]
        cleaned == StripAnsi(Trim(remainder))
        n == Len(emitted)
    IN /\ info[1].buffer = remainder
       /\ n >= 2
       /\ emitted[n - 1] =
            SessionEv("session:updated", 1, info[1].session.status)
       /\ emitted[n] = MessageComplete(1)
       /\ SubSeq(emitted, 1, n - 2) =
            (IF cleaned # <<>> THEN ProcessStreamEvent(1, cleaned) ELSE <<>>)
       /\ Trim(remainder) = <<>> => n = 2
       /\ n <= 3

\* A remainder that the cleaning changed was flushed as one event.
C30_Witness ==
  /\ lastOp.op = "exit"
  /\ Len(emitted) = 3
  /\ emitted[1].name = "message:stream"
  /\ emitted[1].content # info[1].buffer
  /\ emitted[1].content = <<"x">>

\* C31: every operation or callback that concerns one session (send, spawn
\* failure, stop, subprocess data, subprocess exit) leaves the status, the
\* process handle and the parse buffer of every other session unchanged.
C31_OtherSessionsUntouched ==
  [][\A other \in DOMAIN info :
       (/\ lastOp'.op \in {"send", "stop", "data", "exit"}
        /\ other # (IF lastOp'.op \in {"data", "exit"}
                    THEN pty[lastOp'.pid].session
                    ELSE lastOp'.sid)) =>
         /\ info'[other].session.status = info[other].session.status
         /\ info'[other].process = info[other].process
         /\ info'[other].buffer = info[other].buffer
         /\ (other \in processes') = (other \in processes)]_vars

\* A subprocess of one session exited while the other session was active
\* with a fragment in its buffer.
C31_Witness ==
  /\ lastOp.op = "exit"
  /\ Len(info) = 2
  /\ LET other == 3 - lastOp.sid
     IN /\ info[other].session.status = "active"
        /\ info[other].buffer # <<>>
        /\ info[other].process # 0

\* Whether the one classified line of the run is an error event.
OneErrorLine ==
  /\ Len(Classified(handed)) = 1
  /\ IsEventObject(Classified(handed)[1])
  /\ JsonFields(Trim(Classified(handed)[1])[1]).type = "error"

\* The members of the error event of the run.
ErrorEvent == JsonFields(Trim(Classified(handed)[1])[1])

\* C32: an error event yields a message.received of type error whose
\* content is the event's error payload when the event has one, and the
\* literal "Unknown error" when it has none.
C32_ErrorPayloadWhenPresent ==
  OneErrorLine =>
    OutputEvents =
      <<Ev("message:received", 1, "system", "error",
           IF "error" \in DOMAIN ErrorEvent THEN <<ErrorEvent.error>>
           ELSE <<"Unknown error">>,
           "none")>>

\* C32, amended: the content is the payload when the event has one that is
\* not empty, and the literal "Unknown error" when the payload is absent or
\* the empty string.
C32_ErrorPayloadOrDefault ==
  OneErrorLine =>
    OutputEvents =
      <<Ev("message:received", 1, "system", "error",
           IF "error" \in DOMAIN ErrorEvent /\ ErrorEvent.error # ""
           THEN <<ErrorEvent.error>>
           ELSE <<"Unknown error">>,
           "none")>>

\* An error event without a payload was published with the default text.
C32_Witness ==
  /\ lastOp.op = "data"
  /\ Classified(handed) = << <<JsonErrorNoPayload>> >>
  /\ Len(OutputEvents) = 1
  /\ OutputEvents[1].content = <<"Unknown error">>

\* The ids of the sessions getAllSessions returns.
ListedIds == {session.id : session \in GetAllSessions}

\* C33: getAllSessions returns exactly the sessions created by startSession
\* and not yet stopped, each once: nothing at first, then one more by each
\* start, one less by each stop, none after cleanup, the same after any other
\* step; and getSession(id) returns a session, the one of that id, exactly
\* for the ids listed.
C33_ListIsCreatedMinusStopped ==
  /\ ListedIds = {}
  /\ [][/\ ListedIds' =
            (CASE lastOp'.op = "start" -> ListedIds \cup {lastOp'.sid}
               [] lastOp'.op = "stop" -> ListedIds \ {lastOp'.sid}
               [] lastOp'.op = "cleanup" -> {}
               [] OTHER -> ListedIds)
        /\ Cardinality(GetAllSessions') = Cardinality(ListedIds')
        /\ \A id \in SessionIds :
             /\ (GetSession(id)' # <<>>) = (id \in ListedIds')
             /\ GetSession(id)' # <<>> =>
                  (GetSession(id)'[1].id = id /\ GetSession(id)'[1] \in GetAllSessions')]_vars

\* A session was created, used and stopped, and is no longer returned.
C33_Witness ==
  /\ lastOp.op = "stop"
  /\ lastOp.result = "stopped"
  /\ lastOp.pid # 0
  /\ GetAllSessions = {}
  /\ GetSession(lastOp.sid) = <<>>

IsStatusEvent(e) == e.name \in {"session:created", "session:updated"}

\* The positions in evs of the session:created and session:updated events
\* of session sid.
StatusEventsOf(evs, sid) ==
  {i \in DOMAIN evs : IsStatusEvent(evs[i]) /\ evs[i].sid = sid}

\* C34: subscribers can follow the status from the events alone: between
\* handlers, the status of every session of the registry is the one its
\* latest session:created or session:updated event carried.  As a property
\* of every handler: for each session in the registry afterwards, the last
\* such event the handler emitted for it carries the status it has then, and
\* a handler that emitted none left its status as it was.
C34_StatusFollowsEvents ==
  [][\A sid \in processes' :
       LET at == StatusEventsOf(emitted', sid)
       IN IF at = {}
          THEN sid \in DOMAIN info /\
               info'[sid].session.status = info[sid].session.status
          ELSE \A i \in at :
                 (\A j \in at : j <= i) =>
                   emitted'[i].status = info'[sid].session.status]_vars

\* A spawn failure announced active and then error, and error is the status.
C34_Witness ==
  /\ lastOp.op = "send"
  /\ lastOp.result = "spawn failed"
  /\ lastOp.sid \in processes
  /\ Cardinality(StatusEventsOf(emitted, lastOp.sid)) = 2
  /\ emitted[Len(emitted)].status = "error"
  /\ info[lastOp.sid].session.status = "error"

\* The positions in evs of the session:stopped events of session sid.
StoppedEventsOf(evs, sid) ==
  {i \in DOMAIN evs : evs[i].name = "session:stopped" /\ evs[i].sid = sid}

\* C35: cleanup() stops every session that is in the registry when it is
\* called: afterwards the registry is empty, one session:stopped event and no
\* more was emitted for each such session and nothing else was emitted, each
\* is stopped, and the handle of each session that had one was killed: no
\* such subprocess is running any more.
C35_CleanupStopsEverySession ==
  [][lastOp'.op = "cleanup" =>
       /\ processes' = {}
       /\ Len(emitted') = Cardinality(processes)
       /\ \A sid \in processes :
            /\ Cardinality(StoppedEventsOf(emitted', sid)) = 1
            /\ info'[sid].session.status = "stopped"
            /\ info[sid].process # 0 =>
                 /\ pty'[info[sid].process].state # "running"
                 /\ pty[info[sid].process].state = "running" =>
                      pty'[info[sid].process].state = "killed"]_vars

\* cleanup stopped two sessions whose subprocesses were live.
C35_Witness ==
  /\ lastOp.op = "cleanup"
  /\ Len(emitted) = 2
  /\ \A sid \in PairIds :
       /\ sid \in DOMAIN info
       /\ info[sid].process # 0
       /\ pty[info[sid].process].state = "killed"
       /\ pty[info[sid].process].session = sid

\* The children that are live and that no stop() has signalled.
UnstoppedChildren == {pid \in DOMAIN children : children[pid].state = "running"}

\* C36: a TunnelManager never has more than one live cloudflared child: in
\* every interleaving of start, stop and the callbacks, a start while a
\* child is live is rejected with "Tunnel already running" and spawns
\* nothing, and isRunning() is true whenever a child is live that has not
\* been stopped.
C36_AtMostOneLiveChild ==
  /\ [](Cardinality(LiveChildren) <= 1)
  /\ [](UnstoppedChildren # {} => IsRunning)
  /\ [][(tunnelOp'.op = "start" /\ LiveChildren # {}) =>
         /\ tunnelOp'.result = "Tunnel already running"
         /\ children' = children]_vars

\* C37: in every reachable state getUrl() is non-null only if isRunning()
\* is true; after stop() and after the close callback it is null, and it
\* stays null until the child of a later start finds a URL.
C37_UrlOnlyWhileRunning ==
  /\ [](GetUrl # "null" => IsRunning)
  /\ [][/\ tunnelOp'.op \in {"stop", "close"} => GetUrl' = "null"
        /\ (GetUrl = "null" /\ GetUrl' # "null") =>
             /\ tunnelOp'.op = "stderr"
             /\ tunnelOp'.pid = process]_vars

\* The handlers that reject the promise of a start: the start itself, the
\* error callback, the close callback before a URL, the timer.
StartFailed ==
  \/ /\ tunnelOp.op = "start"
     /\ tunnelOp.result \in {"cloudflared not found", "spawn threw"}
  \/ tunnelOp.op = "error"
  \/ tunnelOp.op = "close" /\ ~children[tunnelOp.pid].urlFound
  \/ tunnelOp.op = "timeout" /\ tunnelOp.result = "rejected"

\* C38: every start that fails (cloudflared not found, spawn error, close
\* before a URL, timeout) rejects its promise and leaves the manager not
\* running, so that the next start is accepted; the url event is emitted at
\* most once per start.
C38_FailedStartLeavesNotRunning ==
  /\ [](StartFailed =>
          /\ ~IsRunning
          /\ tunnelOp.pid # 0 => children[tunnelOp.pid].promise = "rejected")
  /\ [](\A pid \in DOMAIN children : children[pid].urls <= 1)
  /\ [][(StartFailed /\ tunnelOp'.op = "start") =>
         tunnelOp'.result # "Tunnel already running"]_vars

\* The token of the request of the last middleware call: the first of its
\* two places that holds a non-empty value, else the second.
RequestToken ==
  IF authOp.a # Undefined /\ authOp.a # "" THEN authOp.a ELSE authOp.b

\* C39: validateToken(t) is true for every t while authentication is
\* disabled; while it is enabled, it is true exactly when t is the current
\* token, so that the token regenerateToken() replaced is rejected; the HTTP
\* and the socket middleware let a request through exactly when
\* validateToken accepts the request's token.
C39_TokenGate ==
  /\ authOp.op = "validateToken" =>
       (authOp.result = "true") = (~enabled \/ authOp.a = token)
  /\ (authOp.op = "regenerateToken" /\ enabled) =>
       /\ authOp.a # token
       /\ ~ValidateToken(authOp.a)
  /\ authOp.op \in {"http", "socket"} =>
       (authOp.result = "next") = ValidateToken(RequestToken)

\* While enabled, a request whose only token is the one regenerateToken()
\* replaced was turned away.
C39_Witness ==
  /\ enabled
  /\ authOp.op = "http"
  /\ issued = 2
  /\ authOp.a = Undefined
  /\ authOp.b = GenerateToken(1)
  /\ authOp.result = "401"

\* Whether text s holds two dots in a row.
HasDotDot(s) == \E i \in 1..(Len(s) - 1) : s[i] = "." /\ s[i + 1] = "."

\* C40: for every session id, saveImage either fails with
\* INVALID_SESSION_ID or uses a directory that is one entry of the base
\* directory: the sanitized id is not empty, holds no path separator and no
\* "..", also when the id mixes dots with the other characters removed.
C40_SavedInsideOneSubdirectory ==
  (imageOp.op = "saveImage" /\ imageOp.result # "INVALID_SESSION_ID") =>
    LET sanitized == SanitizeSessionId(idGiven)
    IN /\ sanitized # <<>>
       /\ sanitized[1] # <<>>
       /\ \A i \in DOMAIN sanitized[1] : sanitized[1][i] \notin PathSeparators
       /\ ~HasDotDot(sanitized[1])
       /\ imageOp.dir # <<>> =>
            /\ Len(imageOp.dir) = Len(BaseDir) + 1
            /\ IsPrefix(BaseDir, imageOp.dir)

====
